---- MODULE Spec2Model ----
(***************************************************************************)
(* OciorABA* demo (src/main.py): Shamir share codec, instantaneous         *)
(* reliable broadcast over the global NODES registry, one ABBA instance    *)
(* with a common coin per proposer at every node, and the node             *)
(* orchestrator (propose / on_rbc_delivery / _process_share /              *)
(* _process_abba / _inject_default_votes / _finalize) together with the    *)
(* driver loop of __main__.                                                *)
(*                                                                         *)
(* The program is single threaded: a call of propose runs to quiescence,   *)
(* nested calls included, so every action below is one whole call.         *)
(***************************************************************************)
EXTENDS Integers, Sequences, FiniteSets, TLC

\* Number of nodes and fault threshold (the command line defaults).
N == 4
T == 1

\* The field modulus.  The program uses 2^127 - 1; the model keeps the
\* arithmetic and stands a small prime in for it (N < PRIME is all the codec
\* needs of it).
PRIME == 7

\* The offset a Byzantine proposer adds to the secret, per node id.
CorruptStep == 1000

\* Bound: honest proposals are drawn from 0..MaxSecret.
MaxSecret == 1

\* Bound: the codec is called on its own with 1 <= k <= n <= MaxN.
MaxN == 4

\* Python's None (an unset Optional, an absent dict key).
None == -1

\* An absent key of the rbc_shares dict.
NoShare == <<>>

\* The outcome of a call that an exception leaves.
Raised == -2

\* No call has been made from outside the driver.
NoCall == [op |-> "none"]

\* f @@ <<>> is f.  TLC keeps a function constructor [x \in S |-> e] as an
\* unevaluated expression and evaluates e again at every application; the
\* operators below are applied to the results of one another, so they return
\* their functions evaluated.
Eager(f) == f @@ <<>>

\* Apply(F, v) is F(v).  TLC evaluates an operator's argument again at each
\* use of the parameter when it evaluates ENABLED; here v is evaluated once.
Apply(F(_), v) == CHOOSE r \in {F(x) : x \in {v}} : TRUE

Nodes == 1..N
Bits == {0, 1}
Secrets == 0..MaxSecret
Field == 0..(PRIME - 1)

VARIABLES
    is_byzantine,       \* node -> BOOLEAN
    shares,             \* node -> its _shares list (<<>> before propose)
    pending_shares,     \* node -> list of <<sender, share>>
    rbc_shares,         \* node -> sender -> share or NoShare
    vi,                 \* node -> sender -> vote or None
    abba,               \* node -> proposer -> ABBA instance
    abba_out,           \* node -> proposer -> recorded output or None
    final_decision,     \* node -> recovered secret or None
    protocol_complete,  \* node -> BOOLEAN
    call                \* the last call made from outside the driver, with its outcome

vars == <<is_byzantine, shares, pending_shares, rbc_shares, vi, abba, abba_out,
          final_decision, protocol_complete, call>>

-----------------------------------------------------------------------------
(* Field arithmetic and the share codec *)

RECURSIVE PowMod(_, _, _)
PowMod(b, e, p) == IF e = 0 THEN 1 % p ELSE (b * PowMod(b, e - 1, p)) % p

RECURSIVE EvalFrom(_, _, _, _, _)
EvalFrom(coeffs, x, prime, idx, result) ==
    IF idx > Len(coeffs) THEN result
    ELSE EvalFrom(coeffs, x, prime, idx + 1,
                  (result + coeffs[idx] * PowMod(x, idx - 1, prime)) % prime)

\* _eval_polynomial: coeffs[idx] is the coefficient of x^(idx-1).
EvalPolynomial(coeffs, x, prime) == EvalFrom(coeffs, x, prime, 1, 0)

\* The generator: random.seed(seed) followed by m calls of randrange(_PRIME)
\* is a fixed function of the seed.  The model stands a fixed function into
\* the small field in for it: one under which the polynomials of two seeds
\* agree at a node index for some pairs of seeds and at none for others.
SeededCoefficients(seed, m) == Eager([d \in 1..m |-> (seed * seed + d) % PRIME])

\* ECEnc
ECEnc(n, k, secret) ==
    LET coeffs == <<secret>> \o SeededCoefficients(secret, k - 1)
    IN  Eager([i \in 1..n |-> <<i, EvalPolynomial(coeffs, i, PRIME)>>])

RECURSIVE LagrangeInner(_, _, _, _, _, _, _)
LagrangeInner(x, x_s, prime, i, j, num, den) ==
    IF j > Len(x_s) THEN <<num, den>>
    ELSE IF i # j
         THEN LagrangeInner(x, x_s, prime, i, j + 1,
                            (num * (x - x_s[j])) % prime,
                            (den * (x_s[i] - x_s[j])) % prime)
         ELSE LagrangeInner(x, x_s, prime, i, j + 1, num, den)

RECURSIVE LagrangeOuter(_, _, _, _, _, _)
LagrangeOuter(x, x_s, y_s, prime, i, total) ==
    IF i > Len(x_s) THEN total
    ELSE LET nd == LagrangeInner(x, x_s, prime, i, 1, 1, 1)
             inv_den == PowMod(nd[2], prime - 2, prime)
         IN  LagrangeOuter(x, x_s, y_s, prime, i + 1,
                           (total + y_s[i] * nd[1] * inv_den) % prime)

LagrangeInterpolate(x, x_s, y_s, prime) == LagrangeOuter(x, x_s, y_s, prime, 1, 0)

\* ECDec reading the polynomial at 1 instead of 0.
ECDec_AtOne(n, k, shares0) ==
    Apply(LAMBDA shs :
        LET m == IF Len(shs) < k THEN Len(shs) ELSE k
        IN  Apply(LAMBDA xy : LagrangeInterpolate(1, xy[1], xy[2], PRIME),
                  << Eager([i \in 1..m |-> shs[i][1]]),
                     Eager([i \in 1..m |-> shs[i][2]]) >>),
        shares0)

\* ECDec taking shares[:k - 1] where the code takes shares[:k].
ECDec_OneShort(n, k, shares0) ==
    Apply(LAMBDA shs :
        LET m == IF Len(shs) < k - 1 THEN Len(shs) ELSE k - 1
        IN  IF m = 0 THEN Raised ELSE
            Apply(LAMBDA xy : LagrangeInterpolate(0, xy[1], xy[2], PRIME),
                  << Eager([i \in 1..m |-> shs[i][1]]),
                     Eager([i \in 1..m |-> shs[i][2]]) >>),
        shares0)

\* ECDec: interpolate at 0 through the first k shares of the list.  With
\* no share, zip(*shares[:k]) yields nothing and the unpacking into x_s, y_s
\* raises ValueError.
ECDec(n, k, shares0) ==
    Apply(LAMBDA shs :
        LET m == IF Len(shs) < k THEN Len(shs) ELSE k
        IN  IF m = 0 THEN Raised ELSE
            Apply(LAMBDA xy : LagrangeInterpolate(0, xy[1], xy[2], PRIME),
                  << Eager([i \in 1..m |-> shs[i][1]]),
                     Eager([i \in 1..m |-> shs[i][2]]) >>),
        shares0)

-----------------------------------------------------------------------------
(* Common coin *)

NewCoin == [coin_shares |-> <<>>, coin_value |-> None]

Xor(a, b) == (a + b) % 2

RECURSIVE XorFirst(_, _)
XorFirst(cs, m) == IF m = 0 THEN 0 ELSE Xor(XorFirst(cs, m - 1), cs[m][2])

\* _try_compute_coin: XOR of the first t+1 contributions, computed once.
TryComputeCoin(c) ==
    IF Len(c.coin_shares) >= T + 1 /\ c.coin_value = None
    THEN [c EXCEPT !.coin_value = XorFirst(c.coin_shares, T + 1)]
    ELSE c

\* contribute_share: coin_shares is a dict in insertion order, kept as a list
\* of <<node_id, share>>; an existing key is overwritten in place.
ContributeShare(c, node_id, round_num) ==
    LET share == (node_id * 7 + round_num * 13) % 2
        has == \E p \in 1..Len(c.coin_shares) : c.coin_shares[p][1] = node_id
        cs == IF has
              THEN Eager([p \in 1..Len(c.coin_shares) |->
                             IF c.coin_shares[p][1] = node_id
                             THEN <<node_id, share>> ELSE c.coin_shares[p]])
              ELSE Append(c.coin_shares, <<node_id, share>>)
    IN  TryComputeCoin([c EXCEPT !.coin_shares = cs])

-----------------------------------------------------------------------------
(* ABBA instance *)

NewABBA == [inputs |-> [s \in Nodes |-> None], output |-> None,
            common_coin |-> NewCoin, coin_requested |-> FALSE]

Count(inp, b) == Cardinality({s \in Nodes : inp[s] = b})

\* _try_decide asking ones >= n where the code asks ones >= n - t.
TryDecide_Unanimous(ab0) ==
    Apply(LAMBDA ab :
        IF ab.output # None THEN ab
        ELSE LET ones == Count(ab.inputs, 1)
                 zeros == Count(ab.inputs, 0)
                 total_votes == Cardinality({s \in Nodes : ab.inputs[s] # None})
             IN  IF ones >= N THEN [ab EXCEPT !.output = 1]
                 ELSE IF zeros >= N - T THEN [ab EXCEPT !.output = 0]
                 ELSE IF total_votes >= N - T
                         /\ ab.common_coin.coin_value # None
                      THEN IF ones >= T + 1 THEN [ab EXCEPT !.output = 1]
                           ELSE IF zeros >= T + 1 THEN [ab EXCEPT !.output = 0]
                           ELSE [ab EXCEPT !.output = ab.common_coin.coin_value]
                      ELSE ab,
        ab0)

\* _try_decide asking ones >= t where the code asks ones >= n - t.
TryDecide_OnesT(ab0) ==
    Apply(LAMBDA ab :
        IF ab.output # None THEN ab
        ELSE LET ones == Count(ab.inputs, 1)
                 zeros == Count(ab.inputs, 0)
                 total_votes == Cardinality({s \in Nodes : ab.inputs[s] # None})
             IN  IF ones >= T THEN [ab EXCEPT !.output = 1]
                 ELSE IF zeros >= N - T THEN [ab EXCEPT !.output = 0]
                 ELSE IF total_votes >= N - T
                         /\ ab.common_coin.coin_value # None
                      THEN IF ones >= T + 1 THEN [ab EXCEPT !.output = 1]
                           ELSE IF zeros >= T + 1 THEN [ab EXCEPT !.output = 0]
                           ELSE [ab EXCEPT !.output = ab.common_coin.coin_value]
                      ELSE ab,
        ab0)

\* _try_decide asking zeros >= t + 1 where the code asks zeros >= n - t.
TryDecide_ZerosT1(ab0) ==
    Apply(LAMBDA ab :
        IF ab.output # None THEN ab
        ELSE LET ones == Count(ab.inputs, 1)
                 zeros == Count(ab.inputs, 0)
                 total_votes == Cardinality({s \in Nodes : ab.inputs[s] # None})
             IN  IF ones >= N - T THEN [ab EXCEPT !.output = 1]
                 ELSE IF zeros >= T + 1 THEN [ab EXCEPT !.output = 0]
                 ELSE IF total_votes >= N - T
                         /\ ab.common_coin.coin_value # None
                      THEN IF ones >= T + 1 THEN [ab EXCEPT !.output = 1]
                           ELSE IF zeros >= T + 1 THEN [ab EXCEPT !.output = 0]
                           ELSE [ab EXCEPT !.output = ab.common_coin.coin_value]
                      ELSE ab,
        ab0)

\* _try_decide deciding 1 on any vote of 1 ("if ones:") where the code asks
\* ones >= n - t.
TryDecide_AnyOne(ab0) ==
    Apply(LAMBDA ab :
        IF ab.output # None THEN ab
        ELSE LET ones == Count(ab.inputs, 1)
                 zeros == Count(ab.inputs, 0)
                 total_votes == Cardinality({s \in Nodes : ab.inputs[s] # None})
             IN  IF ones >= 1 THEN [ab EXCEPT !.output = 1]
                 ELSE IF zeros >= N - T THEN [ab EXCEPT !.output = 0]
                 ELSE IF total_votes >= N - T
                         /\ ab.common_coin.coin_value # None
                      THEN IF ones >= T + 1 THEN [ab EXCEPT !.output = 1]
                           ELSE IF zeros >= T + 1 THEN [ab EXCEPT !.output = 0]
                           ELSE [ab EXCEPT !.output = ab.common_coin.coin_value]
                      ELSE ab,
        ab0)

\* _try_decide without the has_coin_value() test of its third rule.
TryDecide_NoCoinTest(ab0) ==
    Apply(LAMBDA ab :
        IF ab.output # None THEN ab
        ELSE LET ones == Count(ab.inputs, 1)
                 zeros == Count(ab.inputs, 0)
                 total_votes == Cardinality({s \in Nodes : ab.inputs[s] # None})
             IN  IF ones >= N - T THEN [ab EXCEPT !.output = 1]
                 ELSE IF zeros >= N - T THEN [ab EXCEPT !.output = 0]
                 ELSE IF total_votes >= N - T
                      THEN IF ones >= T + 1 THEN [ab EXCEPT !.output = 1]
                           ELSE IF zeros >= T + 1 THEN [ab EXCEPT !.output = 0]
                           ELSE [ab EXCEPT !.output = ab.common_coin.coin_value]
                      ELSE ab,
        ab0)

\* _try_decide
TryDecide(ab0) ==
    Apply(LAMBDA ab :
        IF ab.output # None THEN ab
        ELSE LET ones == Count(ab.inputs, 1)
                 zeros == Count(ab.inputs, 0)
                 total_votes == Cardinality({s \in Nodes : ab.inputs[s] # None})
             IN  IF ones >= N - T THEN [ab EXCEPT !.output = 1]
                 ELSE IF zeros >= N - T THEN [ab EXCEPT !.output = 0]
                 ELSE IF total_votes >= N - T /\ ab.common_coin.coin_value # None
                      THEN IF ones >= T + 1 THEN [ab EXCEPT !.output = 1]
                           ELSE IF zeros >= T + 1 THEN [ab EXCEPT !.output = 0]
                           ELSE [ab EXCEPT !.output = ab.common_coin.coin_value]
                      ELSE ab,
        ab0)

\* ABBA.input without its "if sender in self.inputs: return".
AbbaInput_Overwrite(ab, sender, v) ==
    LET a1 == [ab EXCEPT !.inputs[sender] = v]
             a2 == IF ~a1.coin_requested
                   THEN [a1 EXCEPT !.common_coin = ContributeShare(@, sender, 1),
                                   !.coin_requested = TRUE]
                   ELSE a1
         IN  TryDecide(a2)

\* ABBA.input contributing a coin share on every accepted input, without
\* the coin_requested test.
AbbaInput_EveryInput(ab, sender, v) ==
    IF ab.inputs[sender] # None THEN ab
    ELSE LET a1 == [ab EXCEPT !.inputs[sender] = v]
             a2 == [a1 EXCEPT !.common_coin = ContributeShare(@, sender, 1),
                              !.coin_requested = TRUE]
         IN  TryDecide(a2)

\* ABBA.input
AbbaInput(ab, sender, v) ==
    IF ab.inputs[sender] # None THEN ab
    ELSE LET a1 == [ab EXCEPT !.inputs[sender] = v]
             a2 == IF ~a1.coin_requested
                   THEN [a1 EXCEPT !.common_coin = ContributeShare(@, sender, 1),
                                   !.coin_requested = TRUE]
                   ELSE a1
         IN  TryDecide(a2)

-----------------------------------------------------------------------------
(* Node orchestrator.  The handlers call into each other and into other    *)
(* nodes' ABBA instances through the NODES registry, so they are written   *)
(* as functions from the whole registry w (one field per attribute, each   *)
(* indexed by node id) to the registry after the call.                     *)

World == [is_byzantine |-> is_byzantine, shares |-> shares,
          pending_shares |-> pending_shares, rbc_shares |-> rbc_shares,
          vi |-> vi, abba |-> abba, abba_out |-> abba_out,
          final_decision |-> final_decision,
          protocol_complete |-> protocol_complete]

RECURSIVE SortedSeq(_)
SortedSeq(S) ==
    IF S = {} THEN <<>>
    ELSE LET m == CHOOSE a \in S : \A b \in S : a <= b
         IN  <<m>> \o SortedSeq(S \ {m})

\* _finalize decoding the shares received from the proposers in Bones
\* (self.rbc_shares[j]) where the code decodes self._shares[j - 1].
Finalize_Received(w0, i) ==
    Apply(LAMBDA w :
        LET Aones == {j \in Nodes : w.abba_out[i][j] = 1}
        IN  IF Cardinality(Aones) < T + 1
            THEN [w EXCEPT !.final_decision[i] = None,
                           !.protocol_complete[i] = TRUE]
            ELSE Apply(LAMBDA Bones :
                     LET missing == {p \in 1..Len(Bones) :
                                        w.rbc_shares[i][Bones[p]] = NoShare}
                     IN  IF missing # {}
                         THEN [w EXCEPT !.protocol_complete[i] = TRUE]
                         ELSE LET shs == Eager([p \in 1..Len(Bones) |->
                                                   w.rbc_shares[i][Bones[p]]])
                                  recovered == ECDec(N, T + 1, shs)
                              IN  [w EXCEPT !.final_decision[i] = recovered,
                                            !.protocol_complete[i] = TRUE],
                     SubSeq(SortedSeq(Aones), 1, T + 1)),
        w0)

\* _finalize at node i
Finalize(w0, i) ==
    Apply(LAMBDA w :
        LET Aones == {j \in Nodes : w.abba_out[i][j] = 1}
        IN  IF Cardinality(Aones) < T + 1
            THEN [w EXCEPT !.final_decision[i] = None,
                           !.protocol_complete[i] = TRUE]
            ELSE Apply(LAMBDA Bones :
                     LET missing == {p \in 1..Len(Bones) :
                                        w.rbc_shares[i][Bones[p]] = NoShare}
                     IN  IF missing # {}
                         THEN [w EXCEPT !.protocol_complete[i] = TRUE]
                         ELSE LET shs == Eager([p \in 1..Len(Bones) |->
                                                   w.shares[i][Bones[p]]])
                                  recovered == ECDec(N, T + 1, shs)
                              IN  [w EXCEPT !.final_decision[i] = recovered,
                                            !.protocol_complete[i] = TRUE],
                     SubSeq(SortedSeq(Aones), 1, T + 1)),
        w0)

\* _inject_default_votes at node i: a 0 from i into each of i's own ABBA
\* instances that has no recorded output, once any output is recorded.
InjectDefaultVotes(w0, i) ==
    Apply(LAMBDA w :
        IF \E j \in Nodes : w.abba_out[i][j] # None
        THEN [w EXCEPT !.abba[i] =
                 Eager([j \in Nodes |-> IF w.abba_out[i][j] = None
                                        THEN AbbaInput(w.abba[i][j], i, 0)
                                        ELSE w.abba[i][j]])]
        ELSE w,
        w0)

\* The first loop of _process_abba without its "j not in abba_out" test,
\* recording the node's own vote for an instance that has no output yet.
RecordOutputs_Provisional(w0, i) ==
    Apply(LAMBDA w :
        [w EXCEPT !.abba_out[i] =
            Eager([j \in Nodes |->
                IF w.abba[i][j].output # None
                THEN w.abba[i][j].output ELSE w.abba[i][j].inputs[i]])],
        w0)

\* The first loop of _process_abba: record the outputs not recorded yet.
RecordOutputs(w0, i) ==
    Apply(LAMBDA w :
        [w EXCEPT !.abba_out[i] =
            Eager([j \in Nodes |->
                IF w.abba_out[i][j] = None /\ w.abba[i][j].output # None
                THEN w.abba[i][j].output ELSE w.abba_out[i][j]])],
        w0)

\* _process_abba at node i: record new outputs, inject defaults, finalize
\* when every instance has a recorded output.
ProcessAbba(w0, i) ==
    Apply(LAMBDA w :
        IF \A j \in Nodes : w.abba_out[i][j] # None
        THEN Finalize(w, i) ELSE w,
        InjectDefaultVotes(RecordOutputs(w0, i), i))

\* _process_share at node i.  rv[<<i, sender>>] is what random.choice
\* returns for a Byzantine i.  The vote goes into abba[sender] of every node
\* (the instances are independent, so the registry order does not matter).
ProcessShare(w0, i, sender, share, rv) ==
    ProcessAbba(
        Apply(LAMBDA w :
            LET y_i_j == w.shares[i][sender][2]
                vote == IF w.is_byzantine[i] THEN rv[<<i, sender>>]
                        ELSE IF share[2] = y_i_j THEN 1 ELSE 0
            IN  [w EXCEPT !.vi[i][sender] = vote,
                          !.abba = Eager([k \in Nodes |->
                              [w.abba[k] EXCEPT
                                  ![sender] = AbbaInput(@, i, vote)]])],
            w0),
        i)

\* on_rbc_delivery at node i
OnRbcDelivery(w0, i, sender, share, rv) ==
    Apply(LAMBDA w :
        IF w.shares[i] = <<>>
        THEN [w EXCEPT !.rbc_shares[i][sender] = share,
                       !.pending_shares[i] = Append(@, <<sender, share>>)]
        ELSE ProcessShare([w EXCEPT !.rbc_shares[i][sender] = share],
                          i, sender, share, rv),
        w0)

\* RBC.broadcast: deliver to every node of the registry, in registry order.
RECURSIVE BroadcastFrom(_, _, _, _, _)
BroadcastFrom(w, owner, share, rv, k) ==
    IF k > N THEN w
    ELSE BroadcastFrom(OnRbcDelivery(w, k, owner, share, rv), owner, share, rv, k + 1)

Broadcast(w, owner, share, rv) == BroadcastFrom(w, owner, share, rv, 1)

RECURSIVE DrainPending(_, _, _, _, _)
DrainPending(w, i, pend, rv, p) ==
    IF p > Len(pend) THEN w
    ELSE DrainPending(ProcessShare(w, i, pend[p][1], pend[p][2], rv),
                      i, pend, rv, p + 1)

\* The secret node i encodes.
EncodedSecret(w, i, secret) ==
    IF w.is_byzantine[i] THEN (secret + i * CorruptStep) % PRIME ELSE secret

\* propose draining the pending shares before its own broadcast.
ProposeCall_DrainFirst(w0, i, secret, rv) ==
    Apply(LAMBDA w :
        Broadcast(w, i, w.shares[i][i], rv),
        Apply(LAMBDA w :
            [DrainPending(w, i, w.pending_shares[i], rv, 1)
                EXCEPT !.pending_shares[i] = <<>>],
            Apply(LAMBDA w :
                [w EXCEPT !.shares[i] = ECEnc(N, T + 1, EncodedSecret(w, i, secret))],
                w0)))

\* propose at node i
ProposeCall(w0, i, secret, rv) ==
    Apply(LAMBDA w :
        [DrainPending(w, i, w.pending_shares[i], rv, 1)
            EXCEPT !.pending_shares[i] = <<>>],
        Apply(LAMBDA w :
            Apply(LAMBDA enc :
                Broadcast([w EXCEPT !.shares[i] = enc], i, enc[i], rv),
                ECEnc(N, T + 1, EncodedSecret(w, i, secret))),
            w0))

\* The registry after a call: every node's fields as in w.
SetNodes(w) ==
    /\ shares' = w.shares
    /\ pending_shares' = w.pending_shares
    /\ rbc_shares' = w.rbc_shares
    /\ vi' = w.vi
    /\ abba' = w.abba
    /\ abba_out' = w.abba_out
    /\ final_decision' = w.final_decision
    /\ protocol_complete' = w.protocol_complete
    /\ UNCHANGED is_byzantine

SetWorld(w) == SetNodes(w) /\ UNCHANGED call

-----------------------------------------------------------------------------
(* The program: construction, then the driver *)

Byzantine == {i \in Nodes : is_byzantine[i]}
Honest == Nodes \ Byzantine
Proposed(i) == shares[i] # <<>>

\* The calls of random.choice that propose at node i makes: every Byzantine
\* node that has its shares processes i's broadcast, and a Byzantine i also
\* processes its pending shares.
ChoiceCalls(i) ==
    {<<b, i>> : b \in {c \in Byzantine : Proposed(c) \/ c = i}}
    \cup {<<i, pending_shares[i][p][1]>> :
              p \in {q \in 1..Len(pending_shares[i]) : is_byzantine[i]}}
RandomVotes(i) == [ChoiceCalls(i) -> Bits]

\* OciorABAStarNode.__init__ for every node id.  The driver constructs the
\* first nodes Byzantine (byzantine_nodes = set(range(1, t + 1))); the model
\* takes the first b nodes for every b up to T.
Init ==
    /\ \E b \in 0..T : is_byzantine = [i \in Nodes |-> i <= b]
    /\ shares = [i \in Nodes |-> <<>>]
    /\ pending_shares = [i \in Nodes |-> <<>>]
    /\ rbc_shares = [i \in Nodes |-> [j \in Nodes |-> NoShare]]
    /\ vi = [i \in Nodes |-> [j \in Nodes |-> None]]
    /\ abba = [i \in Nodes |-> [j \in Nodes |-> NewABBA]]
    /\ abba_out = [i \in Nodes |-> [j \in Nodes |-> None]]
    /\ final_decision = [i \in Nodes |-> None]
    /\ protocol_complete = [i \in Nodes |-> FALSE]
    /\ call = NoCall

\* NODES[i].propose(secret)
Propose(i, secret) ==
    /\ ~Proposed(i)
    /\ \E rv \in RandomVotes(i) :
          \E w \in {ProposeCall(World, i, secret, rv)} : SetWorld(w)

\* One step of the driver's wait loop: node._process_abba() at a node that
\* has not completed, after every node has proposed.
Sweep(i) ==
    /\ \A k \in Nodes : Proposed(k)
    /\ ~protocol_complete[i]
    /\ \E w \in {ProcessAbba(World, i)} : SetWorld(w)

Next ==
    \/ \E i \in Nodes, secret \in Secrets : Propose(i, secret)
    \/ \E i \in Nodes : Sweep(i)

Spec == Init /\ [][Next]_vars

\* Nothing is left to do: every node has proposed and re-running
\* _process_abba at a node that has not completed changes nothing.
Quiescent ==
    /\ \A k \in Nodes : Proposed(k)
    /\ \A i \in Nodes : protocol_complete[i] \/ ProcessAbba(World, i) = World

-----------------------------------------------------------------------------
(* The all-honest runs in which every node proposes the same secret, as    *)
(* the driver does (NODES[i].propose(secret) with the one secret of the    *)
(* command line), in any order of the nodes.                               *)

InitHonest ==
    /\ Init
    /\ \A i \in Nodes : ~is_byzantine[i]

ProposeSame(i, secret) ==
    /\ \A k \in Nodes : shares[k] \in {<<>>, ECEnc(N, T + 1, secret)}
    /\ Propose(i, secret)

NextHonest ==
    \/ \E i \in Nodes, secret \in Secrets : ProposeSame(i, secret)
    \/ \E i \in Nodes : Sweep(i)

\* The driver proposes at every node (the loop over range(1, n + 1)) and its
\* wait loop re-runs _process_abba at every node that has not completed.
FairHonest ==
    /\ InitHonest /\ [][NextHonest]_vars
    /\ \A i \in Nodes : WF_vars(\E secret \in Secrets : ProposeSame(i, secret))
    /\ \A i \in Nodes : WF_vars(Sweep(i))

-----------------------------------------------------------------------------
(* ABBA instances on their own: input(sender, v) called directly, in any   *)
(* order, on abba[1] of nodes 1 and 2 (two instances with the same n, t).  *)

Instances == {1, 2}

InitABBA ==
    /\ Init
    /\ \A i \in Nodes : ~is_byzantine[i]

\* NODES[i].abba[1].input(sender, v)
InputCall(i, sender, v) ==
    /\ abba' = [abba EXCEPT ![i][1] = AbbaInput(@, sender, v)]
    /\ UNCHANGED <<is_byzantine, shares, pending_shares, rbc_shares, vi,
                   abba_out, final_decision, protocol_complete, call>>

NextABBA == \E i \in Instances, sender \in Nodes, v \in Bits : InputCall(i, sender, v)

SpecABBA == InitABBA /\ [][NextABBA]_vars

-----------------------------------------------------------------------------
(* Scenario S6: votes of 1 from peers are put into the ABBA instances of   *)
(* node 1, at most T + 1 into each, and node 1 runs its ABBA sweep.        *)

S6Node == 1

\* NODES[1].abba[j].input(sender, 1) from a peer of node 1
PreInject(j, sender) ==
    /\ sender # S6Node
    /\ Count(abba[S6Node][j].inputs, 1) + Count(abba[S6Node][j].inputs, 0) < T + 1
    /\ abba[S6Node][j].inputs[sender] = None
    /\ abba' = [abba EXCEPT ![S6Node][j] = AbbaInput(@, sender, 1)]
    /\ UNCHANGED <<is_byzantine, shares, pending_shares, rbc_shares, vi,
                   abba_out, final_decision, protocol_complete, call>>

\* NODES[1]._process_abba()
SweepS6 == \E w \in {ProcessAbba(World, S6Node)} : SetWorld(w)

NextS6 ==
    \/ \E j \in Nodes, sender \in Nodes : PreInject(j, sender)
    \/ SweepS6

SpecS6 == InitABBA /\ [][NextS6]_vars

-----------------------------------------------------------------------------
(* Claims *)

\* The shares an honest proposer of secret s holds and broadcasts from.
SharesOf(s) == ECEnc(N, T + 1, s)

Completed(i) == protocol_complete[i]
Decided(i) == protocol_complete[i] /\ final_decision[i] # None

\* C1. Orchestrator agreement: any two honest nodes that have completed with
\* a final value other than None hold the same final value.
C1_Agreement ==
    \A i, k \in Honest :
        (Decided(i) /\ Decided(k)) => final_decision[i] = final_decision[k]

\* C2. Termination: once every node has proposed (every delivery and vote
\* is made within the proposals) and the sweeps have been re-run until they
\* change nothing, at least N - T honest nodes have protocol_complete set.
C2_Termination ==
    Quiescent => Cardinality({i \in Honest : protocol_complete[i]}) >= N - T

\* Every honest node that has proposed so far proposed s.
HonestPropose(s) == \A h \in Honest : shares[h] \in {<<>>, SharesOf(s)}

\* C3. Byzantine-tolerant validity: while every honest proposal is the same
\* secret s, every honest node that has completed with a final value other
\* than None has final value s.
C3_Validity ==
    \A s \in Secrets :
        HonestPropose(s) =>
            \A h \in Honest : Decided(h) => final_decision[h] = s

\* A Byzantine node and every honest node have proposed, the Byzantine one
\* a corrupted secret, and an honest node has completed with the secret.
C3_Witness ==
    \E s \in Secrets, b \in Byzantine, h \in Honest :
        /\ HonestPropose(s)
        /\ \A k \in Nodes : Proposed(k)
        /\ shares[b] # SharesOf(s)
        /\ Decided(h) /\ final_decision[h] = s

\* C4. All-honest run: in a fair run in which no node is Byzantine and every
\* proposal is the same secret s, eventually every node has completed with
\* final value s.
C4_AllHonest ==
    \A s \in Secrets :
        ([](Byzantine = {} /\ HonestPropose(s)))
            => <>(\A i \in Nodes : Completed(i) /\ final_decision[i] = s)

\* All nodes honest, all proposed the boundary secret 0, all completed with 0.
C4_Witness ==
    /\ Byzantine = {}
    /\ \A i \in Nodes : shares[i] = SharesOf(0)
    /\ \A i \in Nodes : Completed(i) /\ final_decision[i] = 0

Aones(i) == {j \in Nodes : abba_out[i][j] = 1}
Bones(i) == SubSeq(SortedSeq(Aones(i)), 1, T + 1)
ReceivedFromBones(i) == [p \in 1..(T + 1) |-> rbc_shares[i][Bones(i)[p]]]

\* C5. Finalize reconstructs from received shares: an honest node that has
\* finalized with at least T + 1 proposers accepted, the first T + 1 of them
\* all delivered, has as final value the decoding of the shares it received
\* from those T + 1 proposers.
C5_FinalFromReceived ==
    \A i \in Honest :
        (/\ Completed(i)
         /\ Cardinality(Aones(i)) >= T + 1
         /\ \A p \in 1..(T + 1) : rbc_shares[i][Bones(i)[p]] # NoShare)
            => final_decision[i] = ECDec(N, T + 1, ReceivedFromBones(i))

\* C6. Orchestrator monotonicity: no step changes a recorded abba_out[j] or
\* clears protocol_complete.
C6_Monotonic ==
    [][\A i \in Nodes :
          /\ protocol_complete[i] => protocol_complete'[i]
          /\ \A j \in Nodes :
                abba_out[i][j] # None => abba_out'[i][j] = abba_out[i][j]]_vars

\* A node has completed while another node still has sweeps to run on
\* recorded outputs.
C6_Witness ==
    \E i, k \in Nodes :
        /\ Completed(i) /\ ~Completed(k)
        /\ \E j \in Nodes : abba_out[k][j] # None
        /\ \E j \in Nodes : abba_out[k][j] = None /\ abba[k][j].output # None

Inst(i) == abba[i][1]
HonestSets == {H \in SUBSET Nodes : Cardinality(H) = N - T}

\* C7. ABBA validity: while the inputs received from some N - T senders are
\* all b, the instance's output is not 1 - b, whatever the other senders
\* put in and in whatever order; once all N - T of them are in, it is b.
C7_AbbaValidity ==
    \A i \in Instances, b \in Bits, H \in HonestSets :
        (\A h \in H : Inst(i).inputs[h] \in {None, b})
            => /\ Inst(i).output # 1 - b
               /\ (\A h \in H : Inst(i).inputs[h] = b) => Inst(i).output = b

\* Sender N put in 0 first (its coin contribution is the recorded one), the
\* other N - 1 senders put in 1, and the output is 1.
C7_Witness ==
    \E i \in Instances :
        /\ Len(Inst(i).common_coin.coin_shares) >= 1
        /\ Inst(i).common_coin.coin_shares[1][1] = N
        /\ Inst(i).inputs[N] = 0
        /\ \A h \in Nodes \ {N} : Inst(i).inputs[h] = 1
        /\ Inst(i).output = 1

\* C8. ABBA agreement: two instances that have received the same bit from
\* the same senders are both undecided or both decided on the same bit.
C8_AbbaAgreement ==
    Inst(1).inputs = Inst(2).inputs => Inst(1).output = Inst(2).output

\* Both instances decided on the same full, mixed inputs, received in
\* orders that start with different senders.
C8_Witness ==
    /\ Inst(1).inputs = Inst(2).inputs
    /\ \A h \in Nodes : Inst(1).inputs[h] # None
    /\ \E g, h \in Nodes : Inst(1).inputs[g] = 0 /\ Inst(1).inputs[h] = 1
    /\ Inst(1).common_coin.coin_shares # Inst(2).common_coin.coin_shares
    /\ Inst(1).output # None

\* C9. ABBA termination under full inputs: an instance that has an input
\* from every one of the N senders has its output set.
C9_FullInputsDecide ==
    \A i \in Instances :
        (\A h \in Nodes : Inst(i).inputs[h] # None) => Inst(i).output # None

\* Every ABBA instance of the node holds exactly T + 1 inputs, all 1 and all
\* from peers.
S6Prepared ==
    \A j \in Nodes :
        /\ Count(abba[S6Node][j].inputs, 1) = T + 1
        /\ Count(abba[S6Node][j].inputs, 0) = 0
        /\ abba[S6Node][j].inputs[S6Node] = None

\* C10. Default-vote sweep forces decisions: when every ABBA instance of
\* the node holds exactly T + 1 votes of 1 from peers and nothing else,
\* _process_abba leaves every instance decided.
C10_SweepDecides ==
    S6Prepared =>
        \A j \in Nodes : ProcessAbba(World, S6Node).abba[S6Node][j].output # None

-----------------------------------------------------------------------------
(* One ABBA instance, NODES[1].abba[1], with input(sender, v) called       *)
(* directly and the call recorded together with the instance before it.    *)

InputLogged(sender, v) ==
    /\ abba' = [abba EXCEPT ![1][1] = AbbaInput(@, sender, v)]
    /\ call' = [op |-> "input", sender |-> sender, v |-> v, before |-> abba[1][1]]
    /\ UNCHANGED <<is_byzantine, shares, pending_shares, rbc_shares, vi,
                   abba_out, final_decision, protocol_complete>>

NextInput == \E sender \in Nodes, v \in Bits : InputLogged(sender, v)

SpecInput == InitABBA /\ [][NextInput]_vars

\* C11. ABBA input idempotence: after an input(sender, v) call, the bits
\* recorded for the other senders are those recorded before; a first call
\* of the sender records v; a later call of a sender that already has a bit
\* recorded leaves the whole instance (inputs, output, coin) as it was.
C11_InputIdempotent ==
    call.op = "input" =>
        /\ \A s \in Nodes \ {call.sender} :
               abba[1][1].inputs[s] = call.before.inputs[s]
        /\ call.before.inputs[call.sender] = None
               => abba[1][1].inputs[call.sender] = call.v
        /\ call.before.inputs[call.sender] # None
               => abba[1][1] = call.before

\* A sender whose recorded bit is b has just called input again with 1 - b,
\* while the instance was still undecided.
C11_Witness ==
    /\ call.op = "input"
    /\ call.before.inputs[call.sender] = 1 - call.v
    /\ call.before.output = None
    /\ abba[1][1].inputs[call.sender] = 1 - call.v

-----------------------------------------------------------------------------
(* The codec on its own: ECEnc(n, k, secret) for every secret of the field  *)
(* and 1 <= k <= n <= MaxN, then ECDec(n, k, shares) on a list of at most k *)
(* of the shares ECEnc returned, in any order, repetitions included.        *)

\* The lists of at most k indices into the n shares.
IndexLists(n, k) == UNION {[1..len -> 1..n] : len \in 0..k}

EncCall(n, k, secret) ==
    /\ call' = [op |-> "ECEnc", n |-> n, k |-> k, secret |-> secret,
                result |-> ECEnc(n, k, secret)]
    /\ UNCHANGED <<is_byzantine, shares, pending_shares, rbc_shares, vi, abba,
                   abba_out, final_decision, protocol_complete>>

DecCall(idx) ==
    /\ call.op = "ECEnc"
    /\ idx \in IndexLists(call.n, call.k)
    /\ LET given == [p \in 1..Len(idx) |-> call.result[idx[p]]]
       IN  call' = [op |-> "ECDec", n |-> call.n, k |-> call.k,
                    secret |-> call.secret, shares |-> given,
                    result |-> ECDec(call.n, call.k, given)]
    /\ UNCHANGED <<is_byzantine, shares, pending_shares, rbc_shares, vi, abba,
                   abba_out, final_decision, protocol_complete>>

NextCodec ==
    \/ \E n \in 1..MaxN, k \in 1..MaxN, secret \in Field : k <= n /\ EncCall(n, k, secret)
    \/ \E idx \in IndexLists(MaxN, MaxN) : DecCall(idx)

SpecCodec == InitABBA /\ [][NextCodec]_vars

\* The x coordinates of a list of shares.
DistinctX(shs) == Cardinality({shs[p][1] : p \in 1..Len(shs)})

\* C12. Codec round-trip: ECDec on k shares of pairwise different x taken,
\* in any order, from ECEnc(n, k, secret) returns secret.
C12_RoundTrip ==
    (/\ call.op = "ECDec"
     /\ Len(call.shares) = call.k
     /\ DistinctX(call.shares) = call.k)
        => call.result = call.secret

\* Three of four shares of a threshold-3 encoding of a secret other than 0,
\* given in an order that is not ascending, decode to the secret.
C12_Witness ==
    /\ call.op = "ECDec"
    /\ call.n = 4 /\ call.k = 3 /\ call.secret # 0
    /\ Len(call.shares) = 3 /\ DistinctX(call.shares) = 3
    /\ call.shares[1][1] > call.shares[2][1]
    /\ call.result = call.secret

\* C13. Codec under-threshold: ECDec with threshold k on a list with fewer
\* than k shares of pairwise different x (fewer than k shares, or a
\* repeated x) raises instead of returning a value.
C13_UnderThreshold ==
    (/\ call.op = "ECDec"
     /\ DistinctX(call.shares) < call.k)
        => call.result = Raised

-----------------------------------------------------------------------------
(* An all-honest run of the driver into which one on_rbc_delivery(sender,  *)
(* share) call is made directly at a node that has proposed, with a share  *)
(* whose x and whose y each match the node's expected share or not.        *)

\* assert x_i_j == x_j in _process_share
AssertHolds(w, i, sender, share) == share[1] = w.shares[i][sender][1]

DeliverShares(i, sender) ==
    {<<x, y>> : x \in {shares[i][sender][1], (shares[i][sender][1] % N) + 1},
                y \in {shares[i][sender][2], (shares[i][sender][2] + 1) % PRIME}}

\* NODES[i].on_rbc_delivery(sender, share).  The share is stored, then
\* _process_share runs its assert: under python it raises AssertionError
\* when the x coordinates differ, under python -O the assert is not there.
DeliverCall(i, sender, share, asserts) ==
    /\ call = NoCall
    /\ Proposed(i)
    /\ share \in DeliverShares(i, sender)
    /\ LET fails == asserts /\ ~AssertHolds(World, i, sender, share)
           rv == [c \in {<<i, sender>>} |-> 0]
       IN  /\ \E w \in {IF fails
                        THEN [World EXCEPT !.rbc_shares[i][sender] = share]
                        ELSE OnRbcDelivery(World, i, sender, share, rv)} :
                  SetNodes(w)
           /\ call' = [op |-> "on_rbc_delivery", node |-> i, sender |-> sender,
                       share |-> share, expected |-> shares[i][sender],
                       vi_before |-> vi[i][sender],
                       result |-> IF fails THEN Raised ELSE None]

NextDeliver ==
    \/ \E i \in Nodes, secret \in Secrets : ProposeSame(i, secret)
    \/ \E i \in Nodes : Sweep(i)
    \/ \E i, sender \in Nodes, x \in Nodes, y \in Field, asserts \in BOOLEAN :
           DeliverCall(i, sender, <<x, y>>, asserts)

SpecDeliver == InitHonest /\ [][NextDeliver]_vars

\* C14. Share coordinate mismatch is data, not an error: after a delivery,
\* at a node that has proposed and has not voted on the sender yet, of a
\* share whose x differs from the x of the node's own share for the sender,
\* the call has returned and the node's vote 0 for the sender is recorded at
\* the node and in abba[sender] of every node.
C14_MismatchVotesZero ==
    (/\ call.op = "on_rbc_delivery"
     /\ call.share[1] # call.expected[1]
     /\ call.vi_before = None)
        => /\ call.result # Raised
           /\ vi[call.node][call.sender] = 0
           /\ \A k \in Nodes : abba[k][call.sender].inputs[call.node] = 0

-----------------------------------------------------------------------------
(* Per-proposer decisions across nodes *)

\* C15. Default-vote injection cannot manufacture a false 1: while no
\* honest node's validation vote for proposer j is 1 (each is 0 or not cast
\* yet), no honest node has abba_out[j] = 1.
C15_NoFalseOne ==
    \A j \in Nodes :
        (\A h \in Honest : vi[h][j] \in {None, 0})
            => \A h \in Honest : abba_out[h][j] # 1

\* Every honest node voted 0 for proposer j and a Byzantine node voted 1; an
\* honest node holds an injected 0 of its own in some instance that its
\* validation vote is not 0 for, and has recorded the output 0 for j.
C15_Witness ==
    \E j \in Nodes, h \in Honest, b \in Byzantine :
        /\ \A g \in Honest : vi[g][j] = 0
        /\ vi[b][j] = 1
        /\ abba[h][j].inputs[b] = 1
        /\ \E q \in Nodes : abba[h][q].inputs[h] = 0 /\ vi[h][q] # 0
        /\ abba_out[h][j] = 0

\* C16. Cross-node agreement of per-proposer decisions: for every proposer
\* j, any two honest nodes that both have abba_out[j] set have it equal.
C16_OutputsAgree ==
    \A j \in Nodes : \A i, k \in Honest :
        (abba_out[i][j] # None /\ abba_out[k][j] # None)
            => abba_out[i][j] = abba_out[k][j]

\* A Byzantine node has voted; honest node i holds its own injected 0 in its
\* instance for j where its validation vote, as node k holds it, is 1; both
\* nodes have recorded an output for j.
C16_Witness ==
    \E j \in Nodes, i, k \in Honest, b \in Byzantine :
        /\ i # k
        /\ vi[b][j] # None
        /\ vi[i][j] = 1 /\ abba[i][j].inputs[i] = 0 /\ abba[k][j].inputs[i] = 1
        /\ abba_out[i][j] # None /\ abba_out[k][j] # None

\* C17. Recorded votes match validation votes: for every honest node v and
\* proposer j, once vi[j] is set at v, every abba[j] instance, at any node,
\* that holds an input from sender v holds vi[j].
C17_RecordedVotes ==
    \A v \in Honest : \A j, k \in Nodes :
        (vi[v][j] # None /\ abba[k][j].inputs[v] # None)
            => abba[k][j].inputs[v] = vi[v][j]

-----------------------------------------------------------------------------
(* Honest nodes proposing any secrets in any order, with calls at a node   *)
(* that has completed: one more on_rbc_delivery from a sender it already   *)
(* has a share of (the same share or one of another y), _process_abba and  *)
(* _finalize again.                                                        *)

\* The share node i holds from sender, and the share of the same x and
\* another y.
RedeliverShares(i, sender) ==
    IF rbc_shares[i][sender] = NoShare THEN {}
    ELSE {<<rbc_shares[i][sender][1], y>> :
             y \in {rbc_shares[i][sender][2], (rbc_shares[i][sender][2] + 1) % PRIME}}

RedeliverCall(i, sender, share) ==
    /\ call = NoCall
    /\ Completed(i)
    /\ rbc_shares[i][sender] # NoShare
    /\ share \in RedeliverShares(i, sender)
    /\ \E rv \in [{<<i, sender>>} -> Bits] :
          \E w \in {OnRbcDelivery(World, i, sender, share, rv)} : SetNodes(w)
    /\ call' = [op |-> "redeliver", node |-> i, sender |-> sender,
                share |-> share, final_before |-> final_decision[i]]

\* NODES[i]._process_abba() at a node that has completed
ResweepCall(i) ==
    /\ Completed(i)
    /\ \E w \in {ProcessAbba(World, i)} : SetWorld(w)

\* NODES[i]._finalize() at a node that has completed
FinalizeCall(i) ==
    /\ Completed(i)
    /\ \E w \in {Finalize(World, i)} : SetWorld(w)

NextAfter ==
    \/ \E i \in Nodes, secret \in Secrets : Propose(i, secret)
    \/ \E i \in Nodes : Sweep(i)
    \/ \E i, sender \in Nodes :
           \E share \in RedeliverShares(i, sender) : RedeliverCall(i, sender, share)
    \/ \E i \in Nodes : ResweepCall(i)
    \/ \E i \in Nodes : FinalizeCall(i)

SpecAfter == InitHonest /\ [][NextAfter]_vars

\* C18. Final is stable after completion: no step taken while
\* protocol_complete is set at a node changes the node's final_decision.
C18_FinalStable ==
    [][\A i \in Nodes :
          protocol_complete[i] => final_decision'[i] = final_decision[i]]_vars

\* A completed node with a recovered final value has been delivered, from a
\* proposer in Bones, a share other than the one it held, and its final
\* value is the one it had.
C18_Witness ==
    /\ call.op = "redeliver"
    /\ call.final_before # None
    /\ \E p \in 1..(T + 1) : Bones(call.node)[p] = call.sender
    /\ call.share # shares[call.sender][call.sender]
    /\ final_decision[call.node] = call.final_before

-----------------------------------------------------------------------------
(* The common coin of an instance *)

\* C19. Single coin contribution: the coin of an ABBA instance holds at
\* most one contribution; the first accepted input makes it, keyed by that
\* input's sender with the share of round 1, and no other call changes the
\* contributions; the coin has no value, and an output is set only with
\* N - T equal votes, never by the coin-assisted rule.
C19_SingleContribution ==
    LET ab == abba[1][1]
        cs == ab.common_coin.coin_shares
    IN  /\ Len(cs) <= 1
        /\ ab.common_coin.coin_value = None
        /\ call.op = "input" =>
              IF \A s \in Nodes : call.before.inputs[s] = None
              THEN cs = << <<call.sender, (call.sender * 7 + 1 * 13) % 2>> >>
              ELSE cs = call.before.common_coin.coin_shares
        /\ ab.output # None =>
              Count(ab.inputs, 1) >= N - T \/ Count(ab.inputs, 0) >= N - T

\* A sender other than the first has just had its input accepted; the coin
\* still holds the first sender's contribution alone, and N - T inputs are in.
C19_Witness ==
    /\ call.op = "input"
    /\ call.before.inputs[call.sender] = None
    /\ Len(abba[1][1].common_coin.coin_shares) = 1
    /\ abba[1][1].common_coin.coin_shares[1][1] # call.sender
    /\ Cardinality({s \in Nodes : abba[1][1].inputs[s] # None}) >= N - T
    /\ abba[1][1].output = None

-----------------------------------------------------------------------------
(* Buffering *)

\* The senders node i holds a share of.
Delivered(i) == {j \in Nodes : rbc_shares[i][j] # NoShare}

\* C20. Buffering before propose: a node that has not proposed has cast no
\* vote into any instance at any node and has every share delivered to it
\* queued, once each; a node that has proposed has an empty queue and has
\* processed (voted on) every share delivered to it; and an honest node's
\* vote on its own broadcast share is the first it casts, so that its own
\* instance for itself holds that vote, 1.
C20_Buffering ==
    \A i \in Nodes :
        /\ ~Proposed(i) =>
              /\ \A j \in Nodes : vi[i][j] = None
              /\ \A k, j \in Nodes : abba[k][j].inputs[i] = None
              /\ Len(pending_shares[i]) = Cardinality(Delivered(i))
              /\ \A j \in Delivered(i) :
                    \E p \in 1..Len(pending_shares[i]) :
                        pending_shares[i][p] = <<j, rbc_shares[i][j]>>
        /\ Proposed(i) =>
              /\ pending_shares[i] = <<>>
              /\ \A j \in Delivered(i) : vi[i][j] # None
              /\ i \in Honest => vi[i][i] = 1 /\ abba[i][i].inputs[i] = 1

\* Three nodes have proposed: the last of them, Byzantine or not, has voted
\* on the shares of the other two, its queue is empty, and the node that
\* has not proposed has all three shares queued and has voted on none.
C20_Witness ==
    \E i, k \in Nodes :
        /\ \A j \in Nodes \ {k} : Proposed(j)
        /\ ~Proposed(k) /\ Len(pending_shares[k]) = N - 1
        /\ pending_shares[k][N - 1][1] = i
        /\ \A j \in Nodes \ {k} : vi[i][j] # None
        /\ pending_shares[i] = <<>>

====
